---- MODULE Spec2Model ----
(***************************************************************************)
(* Model of cropping_tiff.py: crop_3d_image (crop geometry),               *)
(* save_tiff_correctly (ImageJ hyperstack writer) and process_folder (the  *)
(* batch loop).  An array is represented by its shape, a sequence of       *)
(* extents; pixel data plays no part in any decision the code takes.       *)
(***************************************************************************)
EXTENDS Integers, Sequences, FiniteSets, TLC

VARIABLES
    c_image,     \* crop_3d_image: shape of the `image` argument
    c_size,      \* crop_3d_image: the `crop_size` argument <<crop_height, crop_width>>
    c_pc,        \* crop_3d_image: "call", "returned" or "raised"
    c_out,       \* crop_3d_image: what the call produced (CropOutcome record)
    s_image,     \* save_tiff_correctly: shape of the `image` argument
    s_pc,        \* save_tiff_correctly: "call", "returned" or "raised"
    s_out,       \* save_tiff_correctly: what the call produced (SaveOutcome record)
    listing,     \* process_folder: os.listdir(input_path), a sequence of files
    crop_size,   \* process_folder: the `crop_size` argument
    idx,         \* process_folder: position of the for loop in the listing
    pc,          \* process_folder: "loop" or "done"
    log          \* process_folder: per listing entry, what the iteration did

vars == <<c_image, c_size, c_pc, c_out, s_image, s_pc, s_out,
          listing, crop_size, idx, pc, log>>

cropVars == <<c_image, c_size, c_pc, c_out>>
saveVars == <<s_image, s_pc, s_out>>
folderVars == <<listing, crop_size, idx, pc, log>>

-----------------------------------------------------------------------------
(* Bounds of the model *)

\* largest Y / X extent of the shapes given directly to crop_3d_image
MaxDim == 3
\* largest rank of the shapes given directly to save_tiff_correctly
MaxRank == 5
\* largest extent of the generated shapes given to save_tiff_correctly
MaxExt == 3
\* largest number of entries of the listed input directory
MaxFiles == 2

-----------------------------------------------------------------------------
(* Program constants *)

\* the literal 10 of crop_3d_image: required and extracted Z depth
MinZDepth == 10
\* the literal 300 of process_folder: floor of the crop height / width
MinFloor == 300

Min(a, b) == IF a < b THEN a ELSE b
Max(a, b) == IF a > b THEN a ELSE b

\* a value that is no extent, offset or length
None == 0 - 1

-----------------------------------------------------------------------------
(* crop_3d_image *)

\* image.ndim
ndim(shape) == Len(shape)

\* `image.ndim not in [3, 4]`
UnsupportedRank(shape) == ndim(shape) \notin {3, 4}

\* the unpacking of image.shape into z_dim, y_dim, x_dim (rank 3 or 4)
z_dim(shape) == shape[1]
y_dim(shape) == IF ndim(shape) = 4 THEN shape[3] ELSE shape[2]
x_dim(shape) == IF ndim(shape) = 4 THEN shape[4] ELSE shape[3]

\* a validation that forgets the depth requirement
CropSizeInvalid_NoDepth(shape, size) ==
    \/ y_dim(shape) < size[1]
    \/ x_dim(shape) < size[2]

\* "Validate crop size": the condition under which ValueError is raised
CropSizeInvalid(shape, size) ==
    \/ y_dim(shape) < size[1]
    \/ x_dim(shape) < size[2]
    \/ z_dim(shape) < MinZDepth

\* a window taken from the top of the stack instead of its middle
ZStart_FromTop(zd) == 0

\* start of the centered Z window (Python // is floor division)
ZStart(zd) == (zd - MinZDepth) \div 2

\* a window of the 8 slices the docstring speaks of
ZEnd_EightSlices(zs) == zs + 8

\* end of the Z window
ZEnd(zs) == zs + MinZDepth

\* the values np.random.randint(low, high) can return: low <= n < high
RandInt(low, high) == low .. (high - 1)

\* an inclusive upper end given to randint, whose upper end is exclusive
StartOffsets_OffByOne(dim, crop_len) == RandInt(0, dim - crop_len + 2)

\* the start offsets the code can draw for an axis of extent dim
StartOffsets(dim, crop_len) == RandInt(0, dim - crop_len + 1)

\* number of elements numpy selects with the slice start:stop on an axis of
\* extent dim: negative indices count from the end, then both are clipped
SliceIndex(i, dim) == IF i < 0 THEN Max(i + dim, 0) ELSE Min(i, dim)
SliceLen(start, stop, dim) ==
    Max(SliceIndex(stop, dim) - SliceIndex(start, dim), 0)

\* shape of image[z_start:z_end, (:,) y_start:y_start+h, x_start:x_start+w]
CroppedShape(shape, zs, ze, ys, xs, size) ==
    IF ndim(shape) = 4
    THEN << SliceLen(zs, ze, shape[1]),
            shape[2],
            SliceLen(ys, ys + size[1], shape[3]),
            SliceLen(xs, xs + size[2], shape[4]) >>
    ELSE << SliceLen(zs, ze, shape[1]),
            SliceLen(ys, ys + size[1], shape[2]),
            SliceLen(xs, xs + size[2], shape[3]) >>

CropRaised ==
    [raised |-> TRUE, draws |-> 0, z_start |-> None, z_end |-> None,
     y_start |-> None, x_start |-> None, shape |-> << >>]

CropReturned(shape, size, ys, xs) ==
    LET zs == ZStart(z_dim(shape))
        ze == ZEnd(zs)
    IN  [raised |-> FALSE, draws |-> 2, z_start |-> zs, z_end |-> ze,
         y_start |-> ys, x_start |-> xs,
         shape |-> CroppedShape(shape, zs, ze, ys, xs, size)]

\* every outcome a call crop_3d_image(image, crop_size) can have
crop_3d_image(shape, size) ==
    IF UnsupportedRank(shape) THEN {CropRaised}
    ELSE IF CropSizeInvalid(shape, size) THEN {CropRaised}
    ELSE { CropReturned(shape, size, ys, xs) :
             ys \in StartOffsets(y_dim(shape), size[1]),
             xs \in StartOffsets(x_dim(shape), size[2]) }

-----------------------------------------------------------------------------
(* save_tiff_correctly *)

\* both placeholder axes appended at the end
ExpandDims_BothLast(shape) ==
    IF ndim(shape) = 4 THEN shape \o <<1, 1>> ELSE shape

\* np.expand_dims(image, axis=0) followed by np.expand_dims(image, axis=-1),
\* applied to a rank-4 image only
ExpandDims(shape) ==
    IF ndim(shape) = 4 THEN <<1>> \o shape \o <<1>> ELSE shape

\* image.shape[1] and image.shape[2] (0-based) exist only from rank 3 on:
\* below that the format arguments raise IndexError
DescriptionRaises(buf) == Len(buf) < 3

\* the fields read at the positions Z and C had before the expansion
ImagejDescription_Unexpanded(buf) ==
    [images |-> buf[1] * buf[2], channels |-> buf[2], slices |-> buf[1],
     frames |-> 1, hyperstack |-> TRUE, mode |-> "composite"]

\* the fields of imagej_description, read from the (expanded) image.shape
ImagejDescription(buf) ==
    [images |-> buf[2] * buf[3], channels |-> buf[3], slices |-> buf[2],
     frames |-> 1, hyperstack |-> TRUE, mode |-> "composite"]

NoDescription ==
    [images |-> None, channels |-> None, slices |-> None,
     frames |-> None, hyperstack |-> FALSE, mode |-> ""]

\* the arguments of the imwrite call
ImwriteCall(buf, ok) ==
    [raised |-> ~ok, wrote |-> TRUE, buffer |-> buf,
     photometric |-> "minisblack", axes |-> "TZCYXS",
     imagej |-> ImagejDescription(buf)]

NoWrite ==
    [raised |-> FALSE, wrote |-> FALSE, buffer |-> << >>,
     photometric |-> "", axes |-> "", imagej |-> NoDescription]

SaveRaised == [NoWrite EXCEPT !.raised = TRUE]

\* every outcome a call save_tiff_correctly(output_file, image) can have;
\* imwrite itself returns or raises (an I/O or library error)
save_tiff_correctly(shape) ==
    LET buf == ExpandDims(shape)
    IN  IF DescriptionRaises(buf) THEN {SaveRaised}
        ELSE { ImwriteCall(buf, ok) : ok \in BOOLEAN }

-----------------------------------------------------------------------------
(* process_folder *)

\* file names are sequences of characters
TifSuffix == <<".", "t", "i", "f">>
TiffSuffix == <<".", "t", "i", "f", "f">>

\* str.endswith
EndsWith(name, suffix) ==
    /\ Len(name) >= Len(suffix)
    /\ SubSeq(name, Len(name) - Len(suffix) + 1, Len(name)) = suffix

\* `file_name.endswith('.tif') or file_name.endswith('.tiff')`
IsTiffName(name) == EndsWith(name, TifSuffix) \/ EndsWith(name, TiffSuffix)

\* a floor that is not capped at the image's extent
EffectiveCrop_NoCap(request, dim) == Max(MinFloor, request)

\* min(max(300, crop_size[k]), image.shape[-2 + k])
EffectiveCrop(request, dim) == Min(Max(MinFloor, request), dim)

\* crop_height, crop_width as process_folder passes them to crop_3d_image
EffectiveSize(shape, size) ==
    << EffectiveCrop(size[1], shape[Len(shape) - 1]),
       EffectiveCrop(size[2], shape[Len(shape)]) >>

\* what one iteration of the loop did with a listing entry
Entry(attempts, outcome, crop, cropped, write) ==
    [attempts |-> attempts, outcome |-> outcome, crop |-> crop,
     cropped |-> cropped, write |-> write]

NotVisited == Entry(0, "pending", << >>, << >>, NoWrite)

\* the body of the try block from the crop on, for a rank-3 or rank-4 image:
\* a ValueError of crop_3d_image or an error of save_tiff_correctly is caught
\* and printed by the except clause
CropAndSave(f, size) ==
    LET eff == EffectiveSize(f.shape, size)
        crops == crop_3d_image(f.shape, eff)
        raised == { c \in crops : c.raised }
        shapes == { c.shape : c \in crops \ raised }
    IN  { Entry(1, "error", eff, << >>, NoWrite) : c \in raised }
        \cup UNION { { Entry(1, IF w.raised THEN "error" ELSE "saved",
                             eff, shape, w) :
                         w \in { o \in save_tiff_correctly(shape) :
                                    o.raised = ~f.writable } } :
                     shape \in shapes }

\* every result one iteration of the for loop can have for the entry f
Iteration(f, size) ==
    IF ~IsTiffName(f.name)
    THEN { Entry(0, "ignored", << >>, << >>, NoWrite) }
    ELSE IF ~f.readable
    THEN { Entry(1, "error", << >>, << >>, NoWrite) }
    ELSE IF UnsupportedRank(f.shape)
    THEN { Entry(1, "skipped", << >>, << >>, NoWrite) }
    ELSE CropAndSave(f, size)

\* an exception that leaves the loop instead of being caught inside it
AfterIteration_Abort(i, outcome) ==
    IF outcome = "error" THEN Len(listing) + 1 ELSE i + 1

\* the for loop goes on to the next entry after `continue`, after the except
\* clause and after a saved file alike
AfterIteration(i, outcome) == i + 1

-----------------------------------------------------------------------------
(* Inputs of the direct calls *)

\* Z extents around the required depth
ZDims == {0, 3, MinZDepth - 1, MinZDepth, MinZDepth + 1, 2 * MinZDepth,
          2 * MinZDepth + 1}
CDims == {1, 3}

CropShapes ==
    LET D == 0 .. MaxDim
    IN  { <<y, x>> : y \in D, x \in D }
        \cup { <<z, y, x>> : z \in ZDims, y \in D, x \in D }
        \cup { <<z, c, y, x>> : z \in ZDims, c \in CDims, y \in D, x \in D }
        \cup { <<1, z, 1, y, x>> : z \in ZDims, y \in D, x \in D }

CropSizes == (-1 .. MaxDim + 1) \X (-1 .. MaxDim + 1)

SaveShapes ==
    UNION { [1 .. k -> 1 .. MaxExt] : k \in 0 .. MaxRank }
    \cup { <<12, 400, 400>>, <<12, 3, 400, 400>>, <<3, 3, 350, 350>>,
           <<10, 3, 350, 350>> }

-----------------------------------------------------------------------------
(* Idle values of the parts a specification does not exercise *)

CropIdle ==
    /\ c_image = << >>
    /\ c_size = <<0, 0>>
    /\ c_pc = "idle"
    /\ c_out = CropRaised

SaveIdle ==
    /\ s_image = << >>
    /\ s_pc = "idle"
    /\ s_out = NoWrite

FolderIdle ==
    /\ listing = << >>
    /\ crop_size = <<0, 0>>
    /\ idx = 1
    /\ pc = "idle"
    /\ log = << >>

-----------------------------------------------------------------------------
(* Specification of a direct call of crop_3d_image *)

InitCrop ==
    /\ c_image \in CropShapes
    /\ c_size \in CropSizes
    /\ c_pc = "call"
    /\ c_out = CropRaised
    /\ SaveIdle
    /\ FolderIdle

CropCall ==
    /\ c_pc = "call"
    /\ \E o \in crop_3d_image(c_image, c_size) :
          /\ c_out' = o
          /\ c_pc' = IF o.raised THEN "raised" ELSE "returned"
    /\ UNCHANGED <<c_image, c_size, saveVars, folderVars>>

NextCrop == CropCall

SpecCrop == InitCrop /\ [][NextCrop]_vars

-----------------------------------------------------------------------------
(* Specification of a direct call of save_tiff_correctly *)

InitSave ==
    /\ s_image \in SaveShapes
    /\ s_pc = "call"
    /\ s_out = NoWrite
    /\ CropIdle
    /\ FolderIdle

SaveCall ==
    /\ s_pc = "call"
    /\ \E o \in save_tiff_correctly(s_image) :
          /\ s_out' = o
          /\ s_pc' = IF o.raised THEN "raised" ELSE "returned"
    /\ UNCHANGED <<s_image, cropVars, folderVars>>

NextSave == SaveCall

SpecSave == InitSave /\ [][NextSave]_vars

-----------------------------------------------------------------------------
(* Properties of crop_3d_image, under SpecCrop *)

\* the extents the claims speak of: Z is axis 0, Y and X the last two axes
ZOf(shape) == shape[1]
YOf(shape) == shape[Len(shape) - 1]
XOf(shape) == shape[Len(shape)]

\* C1: whenever crop_3d_image returns, whatever offsets were drawn, the
\* Y, X and Z windows lie inside the volume: 0 <= start and
\* start + length <= extent on each of the three axes.
C1_BoundsInsideVolume ==
    c_pc = "returned" =>
        /\ 0 <= c_out.y_start
        /\ c_out.y_start + c_size[1] <= YOf(c_image)
        /\ 0 <= c_out.x_start
        /\ c_out.x_start + c_size[2] <= XOf(c_image)
        /\ 0 <= c_out.z_start
        /\ c_out.z_start + MinZDepth <= ZOf(c_image)

\* a rank-4 crop whose drawn Y window touches the far edge of the volume
C1_Witness ==
    /\ c_pc = "returned"
    /\ Len(c_image) = 4
    /\ c_size[1] > 0
    /\ c_out.y_start > 0
    /\ c_out.y_start + c_size[1] = YOf(c_image)
    /\ c_out.x_start = 0

C8_Invalid ==
    \/ Len(c_image) \notin {3, 4}
    \/ /\ Len(c_image) \in {3, 4}
       /\ \/ ZOf(c_image) < MinZDepth
          \/ c_size[1] > YOf(c_image)
          \/ c_size[2] > XOf(c_image)

\* C8: crop_3d_image raises exactly when the rank is not 3 or 4, or
\* Z_dim < MinZDepth, or the crop height / width exceeds Y_dim / X_dim; when
\* it raises no offset has been drawn and no bounds or slice exist, and for
\* every other input it returns bounds.
C8_RaisesIffInvalid ==
    c_pc # "call" =>
        /\ (c_pc = "raised") <=> C8_Invalid
        /\ c_pc = "raised" => c_out.draws = 0 /\ c_out.shape = << >>
                              /\ c_out.y_start = None /\ c_out.x_start = None
        /\ c_pc = "returned" => c_out.draws = 2 /\ Len(c_out.shape) = Len(c_image)

\* a rank-4 volume rejected only because it is too shallow
C8_Witness ==
    /\ c_pc = "raised"
    /\ Len(c_image) = 4
    /\ ZOf(c_image) < MinZDepth
    /\ c_size[1] <= YOf(c_image)
    /\ c_size[2] <= XOf(c_image)

-----------------------------------------------------------------------------
(* Properties of save_tiff_correctly, under SpecSave *)

\* C5: for a rank-3 volume the writer emits axes "ZYX", photometric
\* minisblack, the buffer unchanged at rank 3, and no channel-derived
\* description fields.
C5_Rank3Metadata ==
    (s_pc # "call" /\ Len(s_image) = 3) =>
        /\ s_out.wrote
        /\ s_out.axes = "ZYX"
        /\ s_out.photometric = "minisblack"
        /\ s_out.buffer = s_image
        /\ s_out.imagej = NoDescription

\* C6: for a rank-4 volume (Z, C, Y, X) the buffer given to imwrite is
\* (1, Z, C, Y, X, 1), of rank 6, with axes "TZCYXS".
C6_Rank4Expanded ==
    (s_pc # "call" /\ Len(s_image) = 4) =>
        /\ s_out.wrote
        /\ Len(s_out.buffer) = 6
        /\ s_out.buffer = << 1, s_image[1], s_image[2], s_image[3],
                             s_image[4], 1 >>
        /\ s_out.axes = "TZCYXS"

\* the volume (12, 3, 400, 400) written as (1, 12, 3, 400, 400, 1)
C6_Witness ==
    /\ s_pc = "returned"
    /\ s_image = <<12, 3, 400, 400>>
    /\ s_out.buffer = <<1, 12, 3, 400, 400, 1>>

\* C7: for a rank-4 volume (Z, C, Y, X) the description states
\* images = Z * C, channels = C, slices = Z, frames = 1.
C7_DescriptionFields ==
    (s_pc # "call" /\ Len(s_image) = 4) =>
        /\ s_out.wrote
        /\ s_out.imagej.images = s_image[1] * s_image[2]
        /\ s_out.imagej.channels = s_image[2]
        /\ s_out.imagej.slices = s_image[1]
        /\ s_out.imagej.frames = 1

\* (12, 3, 400, 400): images = 36, channels = 3, slices = 12, frames = 1
C7_Witness ==
    /\ s_pc = "returned"
    /\ s_image = <<12, 3, 400, 400>>
    /\ s_out.imagej.images = 36
    /\ s_out.imagej.channels = 3
    /\ s_out.imagej.slices = 12
    /\ s_out.imagej.frames = 1

\* C9: given a volume whose rank is not 3 or 4 the writer raises and no
\* write has been attempted.
C9_WriterRejectsRank ==
    (s_pc # "call" /\ Len(s_image) \notin {3, 4}) =>
        /\ s_pc = "raised"
        /\ ~s_out.wrote

-----------------------------------------------------------------------------
(* Specification of process_folder *)

Str(name, suffix) == name \o suffix

\* the files an input directory can hold: name, whether tiff.imread succeeds,
\* the shape it returns, and whether imwrite of the output succeeds
File(name, readable, shape, writable) ==
    [name |-> name, readable |-> readable, shape |-> shape,
     writable |-> writable]

Files ==
    { File(Str(<<"a">>, TifSuffix), TRUE, <<12, 3, 360, 355>>, TRUE),
      File(Str(<<"b">>, TiffSuffix), TRUE, <<3, 3, 500, 500>>, TRUE),
      File(Str(<<"c">>, TifSuffix), TRUE, <<11, 352, 300>>, TRUE),
      File(Str(<<"d">>, TifSuffix), TRUE, <<20, 250, 250>>, TRUE),
      File(Str(<<"e">>, TifSuffix), TRUE, <<500, 500>>, TRUE),
      File(Str(<<"f">>, TiffSuffix), FALSE, << >>, TRUE),
      File(Str(<<"g">>, TifSuffix), TRUE, <<10, 1, 300, 301>>, FALSE),
      File(Str(<<"h">>, TifSuffix) \o <<".", "b", "a", "k">>, TRUE,
           <<12, 3, 500, 500>>, TRUE) }

\* os.listdir returns each name once, in arbitrary order
Listings ==
    { l \in UNION { [1 .. n -> Files] : n \in 0 .. MaxFiles } :
        \A i, j \in 1 .. Len(l) : i # j => l[i].name # l[j].name }

Requests == { <<350, 350>>, <<600, 100>> }

Init ==
    /\ listing \in Listings
    /\ crop_size \in Requests
    /\ idx = 1
    /\ pc = "loop"
    /\ log = [i \in 1 .. Len(listing) |-> NotVisited]
    /\ CropIdle
    /\ SaveIdle

\* one iteration of `for file_name in os.listdir(input_path)`
ProcessEntry ==
    /\ pc = "loop"
    /\ idx <= Len(listing)
    /\ \E e \in Iteration(listing[idx], crop_size) :
          /\ log' = [log EXCEPT ![idx] = e]
          /\ idx' = AfterIteration(idx, e.outcome)
    /\ UNCHANGED <<listing, crop_size, pc, cropVars, saveVars>>

\* the listing is exhausted: process_folder returns
Finish ==
    /\ pc = "loop"
    /\ idx > Len(listing)
    /\ pc' = "done"
    /\ UNCHANGED <<listing, crop_size, idx, log, cropVars, saveVars>>

Next == ProcessEntry \/ Finish

Spec == Init /\ [][Next]_vars

\* the interpreter keeps executing the single-threaded loop
FairSpec == Spec /\ WF_vars(Next)

-----------------------------------------------------------------------------
(* Properties of process_folder, under Spec and FairSpec *)

\* the entries the loop has gone past
Visited == { i \in 1 .. Len(listing) : i < idx }

\* the visited entries whose image was loaded with rank 3 or 4
Loaded ==
    { i \in Visited : /\ IsTiffName(listing[i].name)
                      /\ listing[i].readable
                      /\ Len(listing[i].shape) \in {3, 4} }

\* floor first, then cap at the extent
C2_Clamp(request, dim) ==
    LET floored == IF request < MinFloor THEN MinFloor ELSE request
    IN  IF floored > dim THEN dim ELSE floored

\* C2: the effective crop height is min(max(MinFloor, request.height), Y_dim)
\* and the effective width min(max(MinFloor, request.width), X_dim); a volume
\* smaller than the floor gets its own extent and the crop does not fail for
\* its size (Y_dim = 250, request 600 gives 250).
C2_EffectiveCropSize ==
    \A i \in Loaded :
        LET shape == listing[i].shape
        IN  /\ log[i].crop = << C2_Clamp(crop_size[1], YOf(shape)),
                                C2_Clamp(crop_size[2], XOf(shape)) >>
            /\ (YOf(shape) = 250 /\ crop_size[1] = 600) => log[i].crop[1] = 250
            /\ ZOf(shape) >= MinZDepth => log[i].cropped # << >>

\* the 250 x 250 volume, asked for 600 rows, is cropped to 250 rows and saved
C2_Witness ==
    \E i \in Loaded :
        /\ listing[i].shape = <<20, 250, 250>>
        /\ crop_size[1] = 600
        /\ log[i].crop[1] = 250
        /\ log[i].outcome = "saved"

C10_Tiffs ==
    { i \in 1 .. Len(listing) :
        LET n == listing[i].name
            k == Len(n)
        IN  \/ k >= 4 /\ <<n[k - 3], n[k - 2], n[k - 1], n[k]>> = TifSuffix
            \/ k >= 5 /\ <<n[k - 4], n[k - 3], n[k - 2], n[k - 1], n[k]>>
                            = TiffSuffix }

\* what becomes of a file, told from the file alone
C10_OwnOutcome(f) ==
    IF ~f.readable THEN "error"
    ELSE IF Len(f.shape) \notin {3, 4} THEN "skipped"
    ELSE IF f.shape[1] < MinZDepth THEN "error"
    ELSE IF ~f.writable THEN "error"
    ELSE "saved"

C10_Safe ==
    \A i \in 1 .. Len(listing) :
        /\ i \in Visited /\ i \in C10_Tiffs =>
              /\ log[i].attempts = 1
              /\ log[i].outcome = C10_OwnOutcome(listing[i])
        /\ i \in Visited /\ i \notin C10_Tiffs =>
              /\ log[i].attempts = 0
              /\ log[i].outcome = "ignored"
        /\ i \notin Visited => log[i] = NotVisited
        /\ log[i].write.wrote => log[i].cropped # << >>
        /\ log[i].cropped # << >> => log[i].write.wrote

C10_AllDone ==
    /\ pc = "done"
    /\ \A i \in C10_Tiffs : log[i].attempts = 1

\* C10: every entry ending in .tif or .tiff is attempted exactly once and the
\* loop terminates; a skipped or failing file does not keep a later file from
\* being attempted; a write is attempted only after a successful crop; and
\* the outcome of a file is decided by that file alone, whatever the other
\* entries and their order.
C10_BatchIndependent == [] C10_Safe /\ <> C10_AllDone

\* a run that ended with a failed file followed by a saved one
C10_Witness ==
    /\ pc = "done"
    /\ Len(listing) = 2
    /\ log[1].outcome = "error"
    /\ log[2].outcome = "saved"

====
